---------------------------- MODULE Spec2Model ----------------------------
(***************************************************************************)
(* A model of the three UI audit scripts of UnoSim:                        *)
(*   archive/typography2/measure_font_sizes.py  (font-size auditor)        *)
(*   scripts/collect-button-sizes.py            (button-size scraper)      *)
(*   verify-typography.py                       (typography stub)          *)
(*                                                                         *)
(* Conventions.                                                            *)
(*  - A text is a sequence of tokens.  A token is either one of the        *)
(*    characters a report format or its reader treats specially (| , "     *)
(*    backtick CR LF, and the blanks of a table line) or a run of          *)
(*    other characters.  Concatenation of texts is concatenation of        *)
(*    strings.                                                             *)
(*  - Pixel sizes are integers in thousandths of a pixel (mpx); Python's   *)
(*    float arithmetic on them (float(), round(x, 2), the .1f formats) is  *)
(*    computed exactly as IEEE-754 doubles compute it, see FlSign.         *)
(*  - The marks U+2713 and U+2717 of the source are written CHECK, CROSS.  *)
(***************************************************************************)
EXTENDS Integers, Sequences, FiniteSets, TLC

CHECK == "[check]"
CROSS == "[cross]"
\* the character U+0060, which a TLA+ string cannot hold
BACKTICK == "[backtick]"

(***************************************************************************)
(* Python floats.                                                          *)
(***************************************************************************)
RECURSIVE PowMod(_, _, _)
PowMod(b, k, d) == IF k = 0 THEN 1 % d ELSE (b * PowMod(b, k - 1, d)) % d

RECURSIVE ExpUp(_, _, _)
\* the largest e >= 0 with d * 2^e <= n   (n >= d)
ExpUp(n, d, e) == IF d * 2 * (2 ^ e) <= n THEN ExpUp(n, d, e + 1) ELSE e

RECURSIVE ExpDown(_, _, _)
\* the smallest j >= 1 with n * 2^j >= d   (0 < n < d)
ExpDown(n, d, j) == IF n * (2 ^ j) >= d THEN j ELSE ExpDown(n, d, j + 1)

\* floor(log2(n / d)) for n > 0
Binade(n, d) == IF n >= d THEN ExpUp(n, d, 0) ELSE 0 - ExpDown(n, d, 1)

\* The sign of fl(n/d) - n/d, where fl(q) is the double nearest to q (round to
\* nearest, ties to even), for n > 0 and d in {100, 1000}.  With
\* k = 52 - Binade the significand is the integer nearest to n * 2^k / d, so
\* the sign is decided by the remainder of n * 2^k modulo d.  The remainder
\* is never d/2: 2^k is a multiple of 8 and d/2 is not a multiple of d's
\* power of two.
FlSign(n, d) ==
    LET k == 52 - Binade(n, d)
        R == ((n % d) * PowMod(2, k, d)) % d
    IN  IF R = 0 THEN 0 ELSE IF 2 * R < d THEN -1 ELSE 1

Abs(x) == IF x < 0 THEN 0 - x ELSE x

\* float(size.replace("px", "")) for a size string of m thousandths: the
\* double fl(m/1000), kept as m with the sign of its representation error.
ParseFloat(m) == [mpx |-> m, err |-> FlSign(m, 1000)]

\* round(measured - expected_px, 2): measured = fl(m/1000) with 8 <= m/1000 < 32
\* and expected_px an integer in 12..20, so the subtraction is exact; the
\* result is the double nearest to c/100, kept as [neg, c] (neg keeps -0.0).
Round2(measured, expected_px) ==
    LET D == measured.mpx - 1000 * expected_px
        a == Abs(D)
        q == a \div 10
        r == a % 10
        \* the sign of |x| - a/1000, x the exact difference of the doubles
        s == IF D < 0 THEN 0 - measured.err ELSE measured.err
        up == \/ r > 5
              \/ r = 5 /\ s > 0
              \/ r = 5 /\ s = 0 /\ q % 2 = 1
    IN  [neg |-> D < 0, c |-> IF up THEN q + 1 ELSE q]

\* A tenths value as Python prints it: "12.2"
Tenths(t) == ToString(t \div 10) \o "." \o ToString(t % 10)

\* f"{measured:.1f}"
Fmt1(measured) ==
    LET q == measured.mpx \div 100
        r == measured.mpx % 100
        up == \/ r > 50
              \/ r = 50 /\ measured.err > 0
              \/ r = 50 /\ measured.err = 0 /\ q % 2 = 1
    IN  Tenths(IF up THEN q + 1 ELSE q)

\* The tenths f"{abweichung:+.1f}" prints for the double nearest to c/100.
DevTenths(c) ==
    LET q == c \div 10
        r == c % 10
        s == IF c = 0 THEN 0 ELSE FlSign(c, 100)
        up == \/ r > 5
              \/ r = 5 /\ s > 0
              \/ r = 5 /\ s = 0 /\ q % 2 = 1
    IN  IF up THEN q + 1 ELSE q

\* f"{abweichung:+.1f}"
FmtDev(abweichung) ==
    (IF abweichung.neg THEN "-" ELSE "+") \o Tenths(DevTenths(abweichung.c))


(***************************************************************************)
(* Font-size auditor: data.                                                *)
(***************************************************************************)
\* (label, scale in thousandths, expected_px)
FONT_SCALES ==
    << [label |-> "S",   scale |-> 875,  expected_px |-> 12],
       [label |-> "M",   scale |-> 1000, expected_px |-> 14],
       [label |-> "L",   scale |-> 1125, expected_px |-> 16],
       [label |-> "XL",  scale |-> 1250, expected_px |-> 18],
       [label |-> "XXL", scale |-> 1500, expected_px |-> 20] >>

\* Python's None where a text is expected, and measure_font_size's None size.
PyNone == <<"<None>">>
NoSize == [mpx |-> -1, err |-> 0]

\* Bounds of the model: the longest selector list, and how many operations
\* of one run (font-scale injections, measurements, report writes) the
\* browser or the file system may fail once the page is loaded.
MaxComps == 2
MaxFaults == 1

\* The entries a selector list is drawn from, in the order the file lists
\* them.  An entry is the JSON object, a function from its keys; the second
\* lacks its "selector".
ConfigEntries ==
    << [name |-> <<"Button">>, selector |-> <<"button">>],
       [name |-> <<"Broken">>],
       [name |-> <<"Tab", ",", "x">>,
        selector |-> <<"[lang", "|", "=en]">>,
        description |-> <<"say", " ", "\"", "hi", "\"">>],
       [name |-> <<"Toast">>, selector |-> <<".missing">>,
        description |-> <<"not", " ", "rendered">>] >>

RECURSIVE Pick(_, _)
\* the entries at the positions >= from that are in the set chosen
Pick(chosen, from) ==
    IF from > Len(ConfigEntries) THEN <<>>
    ELSE IF from \in chosen
    THEN <<ConfigEntries[from]>> \o Pick(chosen, from + 1)
    ELSE Pick(chosen, from + 1)

\* the selector lists of at most n entries
ConfigLists(n) ==
    { Pick(chosen, 1) :
        chosen \in {c \in SUBSET (1..Len(ConfigEntries)) : Cardinality(c) <= n} }

\* The application under test, which the auditor only observes: the element
\* a selector matches (base 0: none), its font size at scale 1.0 in mpx, and
\* whether that size follows --ui-font-scale.
PageElement(selector) ==
    IF selector = <<"button">> THEN [base |-> 14000, scales |-> TRUE]
    ELSE IF selector = <<"[lang", "|", "=en]">> THEN [base |-> 15004, scales |-> FALSE]
    ELSE [base |-> 0, scales |-> FALSE]

\* window.getComputedStyle(el).fontSize, in mpx
ComputedFontSize(selector, page_scale) ==
    LET el == PageElement(selector)
    IN  IF el.scales THEN (el.base * page_scale) \div 1000 ELSE el.base

\* What the browser does during one measure_font_size call.
MeasureEnvs ==
    { [wait |-> "ok", find |-> "ok", script |-> "ok", msg |-> <<>>],
      [wait |-> "timeout", find |-> "ok", script |-> "ok", msg |-> <<>>],
      [wait |-> "ok", find |-> "nosuch", script |-> "ok", msg |-> <<>>],
      [wait |-> "ok", find |-> "ok", script |-> "error",
       msg |-> <<"stale element reference">>],
      [wait |-> "ok", find |-> "ok", script |-> "error", msg |-> <<>>] }

EnvOk == [wait |-> "ok", find |-> "ok", script |-> "ok", msg |-> <<>>]

(***************************************************************************)
(* Font-size auditor: functions.                                           *)
(***************************************************************************)
Returned(size, status, error) ==
    [raised |-> FALSE, size |-> size, status |-> status, error |-> error]

\* measure_font_size without its last handler: a script error leaves the call
measure_font_size_uncaught(env, selector, page_scale) ==
    IF env.wait = "timeout" \/ PageElement(selector).base = 0
    THEN Returned(NoSize, "Timeout", <<"Element nicht innerhalb von 3s gefunden">>)
    ELSE IF env.find = "nosuch"
    THEN Returned(NoSize, "Nicht gefunden", <<"Selektor matched kein Element">>)
    ELSE IF env.script = "error"
    THEN [raised |-> TRUE, size |-> NoSize, status |-> "Fehler", error |-> env.msg]
    ELSE Returned(ParseFloat(ComputedFontSize(selector, page_scale)), CHECK, PyNone)

\* measure_font_size(driver, selector, component_name), lines 58-87: every
\* exception of the body is caught by one of the three handlers, so the call
\* always returns (size, status, error).
measure_font_size(env, selector, page_scale) ==
    IF env.wait = "timeout" \/ PageElement(selector).base = 0
    THEN Returned(NoSize, "Timeout", <<"Element nicht innerhalb von 3s gefunden">>)
    ELSE IF env.find = "nosuch"
    THEN Returned(NoSize, "Nicht gefunden", <<"Selektor matched kein Element">>)
    ELSE IF env.script = "error"
    THEN Returned(NoSize, "Fehler", env.msg)
    ELSE Returned(ParseFloat(ComputedFontSize(selector, page_scale)), CHECK, PyNone)

\* error or "N/A"
OrNA(error) == IF error = PyNone \/ error = <<>> THEN <<"N/A">> ELSE error

\* comp.get("description", "")
Description(comp) ==
    IF "description" \in DOMAIN comp THEN comp.description ELSE <<>>

\* the comparison with < in place of <=
ClassifyStrict(abweichung) == IF abweichung.c < 100 THEN CHECK ELSE CROSS

\* line 187: "[check]" if abs(abweichung) <= 1.0 else "[cross]"
Classify(abweichung) == IF abweichung.c <= 100 THEN CHECK ELSE CROSS

\* lines 185-188 and 205-214: the row of a measured pair
MeasuredRow(comp, preset, measured) ==
    LET abweichung == Round2(measured, preset.expected_px)
    IN  [Komponente |-> comp.name,
         Beschreibung |-> Description(comp),
         Selektor |-> comp.selector,
         Skalierung |-> preset.label,
         Gemessen |-> <<Fmt1(measured)>>,
         Erwartet |-> preset.expected_px,
         Status |-> Classify(abweichung),
         Abweichung |-> <<FmtDev(abweichung)>>]

\* the unmeasured pair's row with the label as its status
FailureRowLabelled(comp, preset, status, error) ==
    [Komponente |-> comp.name,
     Beschreibung |-> Description(comp),
     Selektor |-> comp.selector,
     Skalierung |-> preset.label,
     Gemessen |-> <<status>>,
     Erwartet |-> preset.expected_px,
     Status |-> status,
     Abweichung |-> OrNA(error)]

\* lines 190-202: the row of an unmeasured pair
FailureRow(comp, preset, status, error) ==
    [Komponente |-> comp.name,
     Beschreibung |-> Description(comp),
     Selektor |-> comp.selector,
     Skalierung |-> preset.label,
     Gemessen |-> <<status>>,
     Erwartet |-> preset.expected_px,
     Status |-> CROSS,
     Abweichung |-> OrNA(error)]

\* the loop with a bare continue for an unmeasured pair
CollectMeasuredOnly(rows, comp, preset, m) ==
    IF m.size # NoSize
    THEN Append(rows, MeasuredRow(comp, preset, m.size))
    ELSE rows

\* lines 183-214: results after the pair's row is appended
Collect(rows, comp, preset, m) ==
    IF m.size # NoSize
    THEN Append(rows, MeasuredRow(comp, preset, m.size))
    ELSE Append(rows, FailureRow(comp, preset, m.status, m.error))

\* line 175: the for loop moves to the next component whatever m was
Advance(i, m) == i + 1

\* the outer loop one preset behind
PresetBehind(i) == FONT_SCALES[IF i > 1 THEN i - 1 ELSE i]

\* line 170: the preset the outer loop binds to (label, scale, expected_px)
Preset(i) == FONT_SCALES[i]

\* set_font_scale(driver, scale_value), lines 39-56: the page's scale after
\* the call; a raising execute_script is caught and leaves it as it was.
set_font_scale(injected, scale_value, scale_before) ==
    IF injected THEN scale_value ELSE scale_before

\* a handler that keeps retrying the load
AfterRetryAgain(outcome) == IF outcome = "ok" THEN "wait_body" ELSE "retry"

\* the handler of lines 155-159 calls driver.get once more and does not
\* catch what that call raises
AfterRetry(outcome) == IF outcome = "ok" THEN "wait_body" ELSE "finally"

\* lines 241-243
Total(rows) == Len(rows)
Passed(rows) == Cardinality({i \in 1..Len(rows) : rows[i].Status = CHECK})
Failed(rows) == Total(rows) - Passed(rows)

(***************************************************************************)
(* Font-size auditor: the two report formats.                              *)
(***************************************************************************)
\* lines 228-237: the table line of one row
MdRow(row) ==
    <<"|", " ">> \o row.Komponente \o
    <<" ", "|", " ">> \o row.Beschreibung \o
    <<" ", "|", " ", BACKTICK>> \o row.Selektor \o
    <<BACKTICK, " ", "|", " ", row.Skalierung, " ", "|", " ">> \o row.Gemessen \o
    <<" ", "|", " ", ToString(row.Erwartet), " ", "|", " ", row.Status,
      " ", "|", " ">> \o row.Abweichung \o
    <<" ", "|", "\n">>

RECURSIVE DoubleQuotes(_)
DoubleQuotes(text) ==
    IF text = <<>> THEN <<>>
    ELSE (IF Head(text) = "\"" THEN <<"\"", "\"">> ELSE <<Head(text)>>)
         \o DoubleQuotes(Tail(text))

\* csv.writer's default dialect: a field holding the delimiter, the quote
\* character or a line break is quoted, its quotes doubled
CsvField(text) ==
    IF \E j \in 1..Len(text) : text[j] \in {",", "\"", "\r", "\n"}
    THEN <<"\"">> \o DoubleQuotes(text) \o <<"\"">>
    ELSE text

\* lines 257-266: the record of one row
CsvRow(row) ==
    CsvField(row.Komponente) \o <<",">> \o
    CsvField(row.Beschreibung) \o <<",">> \o
    CsvField(row.Selektor) \o <<",">> \o
    CsvField(<<row.Skalierung>>) \o <<",">> \o
    CsvField(row.Gemessen) \o <<",">> \o
    CsvField(<<ToString(row.Erwartet)>>) \o <<",">> \o
    CsvField(<<row.Status>>) \o <<",">> \o
    CsvField(row.Abweichung) \o <<"\r", "\n">>

(***************************************************************************)
(* Button-size scraper.  Class texts are sequences of characters.          *)
(***************************************************************************)
\* Tailwind height token to px, in the dict's order
TW_H_MAP ==
    << [token |-> <<"h", "-", "4">>, px |-> "16px"],
       [token |-> <<"h", "-", "5">>, px |-> "20px"],
       [token |-> <<"h", "-", "6">>, px |-> "24px"],
       [token |-> <<"h", "-", "7">>, px |-> "28px"],
       [token |-> <<"h", "-", "8">>, px |-> "32px"],
       [token |-> <<"h", "-", "9">>, px |-> "36px"],
       [token |-> <<"h", "-", "1", "0">>, px |-> "40px"],
       [token |-> <<"h", "-", "1", "1">>, px |-> "44px"] >>

\* 'h-[var(--ui-button-height)]' and 'w-[var(--ui-button-height)]'
H_VAR ==
    <<"h", "-", "[", "v", "a", "r", "(", "-", "-", "u", "i", "-", "b", "u", "t", "t", "o", "n", "-", "h", "e", "i", "g", "h", "t", ")", "]">>
W_VAR ==
    <<"w", "-", "[", "v", "a", "r", "(", "-", "-", "u", "i", "-", "b", "u", "t", "t", "o", "n", "-", "h", "e", "i", "g", "h", "t", ")", "]">>

\* Bound of the model: the most class names in one className
MaxWords == 2

\* the class names a className is drawn from; the last two are an empty
\* name (a doubled blank) and a line break
ClassWords ==
    { <<"h", "-", "4">>, <<"h", "-", "8">>, <<"h", "-", "1", "0">>,
      <<"h", "-", "1", "2">>, <<"h", "-", "4", "0">>,
      H_VAR, W_VAR,
      <<"w", "-", "3", "2">>, <<"w", "-", "f", "u", "l", "l">>,
      <<"p", "x", "-", "2">>, <<>>, <<"\n">> }

RECURSIVE Join(_, _)
Join(words, sep) ==
    IF words = <<>> THEN <<>>
    ELSE IF Len(words) = 1 THEN words[1]
    ELSE words[1] \o sep \o Join(Tail(words), sep)

Quoted(words) == [j \in 1..Len(words) |-> <<"'">> \o words[j] \o <<"'">>]

RECURSIVE AllSeqs(_, _)
\* the sequences of at most n elements of S
AllSeqs(S, n) ==
    IF n = 0 THEN {<<>>}
    ELSE LET shorter == AllSeqs(S, n - 1)
         IN  shorter \cup {Append(q, x) : q \in shorter, x \in S}

\* The text between "<Button" and the closing ">" of one use, by its parts:
\* how className is written ("string": className="...", "clsx":
\* className={clsx(...)}, "none": no className), what is written there, and
\* whether a size="icon" attribute precedes it.
Chunks ==
    { [form |-> f, icon |-> b,
       written |-> IF f = "string" THEN Join(w, <<" ">>)
                   ELSE IF f = "clsx" THEN Join(Quoted(w), <<",", " ">>)
                   ELSE <<>>] :
      f \in {"string", "clsx", "none"}, b \in BOOLEAN,
      w \in AllSeqs(ClassWords, MaxWords) }

\* the chunk's text
ChunkText(chunk) ==
    (IF chunk.icon THEN <<" ", "s", "i", "z", "e", "=", "\"", "i", "c", "o", "n", "\"", " ">> ELSE <<" ">>)
    \o (IF chunk.form = "string"
        THEN <<"c", "l", "a", "s", "s", "N", "a", "m", "e", "=", "\"">> \o chunk.written \o <<"\"">>
        ELSE IF chunk.form = "clsx"
        THEN <<"c", "l", "a", "s", "s", "N", "a", "m", "e", "=", "{", "c", "l", "s", "x", "(">> \o chunk.written \o <<")", "}">>
        ELSE <<>>)

\* Python's  t in s
Contains(s, t) ==
    \E j \in 0..(Len(s) - Len(t)) : SubSeq(s, j + 1, j + Len(t)) = t

IsSpace(c) == c \in {" ", "\n", "\t"}

RECURSIVE Strip(_)
Strip(s) ==
    IF s = <<>> THEN s
    ELSE IF IsSpace(Head(s)) THEN Strip(Tail(s))
    ELSE IF IsSpace(s[Len(s)]) THEN Strip(SubSeq(s, 1, Len(s) - 1))
    ELSE s

RECURSIVE CollapseSpaces(_)
\* re.sub(r"\s+", " ", s)
CollapseSpaces(s) ==
    IF s = <<>> THEN s
    ELSE IF IsSpace(Head(s))
    THEN IF Len(s) > 1 /\ IsSpace(s[2]) THEN CollapseSpaces(Tail(s))
         ELSE <<" ">> \o CollapseSpaces(Tail(s))
    ELSE <<Head(s)>> \o CollapseSpaces(Tail(s))

RECURSIVE TakeUntil(_, _)
TakeUntil(s, c) ==
    IF s = <<>> \/ Head(s) = c THEN <<>>
    ELSE <<Head(s)>> \o TakeUntil(Tail(s), c)

\* lines 30-40: the first regex captures a non-empty "..." after className=;
\* the second, and the fallback of lines 35-38, capture clsx's arguments up
\* to the first ")"
ClassText(chunk) ==
    LET cls_text == IF chunk.form = "string" THEN chunk.written
                    ELSE IF chunk.form = "clsx" THEN TakeUntil(chunk.written, ")")
                    ELSE <<>>
    IN  CollapseSpaces(Strip(cls_text))

\* lines 46-50: the first token of TW_H_MAP, in its order, that occurs in
\* cls_text; 0 for None
HToken(cls_text) ==
    LET hits == {j \in 1..Len(TW_H_MAP) : Contains(cls_text, TW_H_MAP[j].token)}
    IN  IF hits = {} THEN 0 ELSE CHOOSE j \in hits : \A k \in hits : j <= k

\* lines 45-59
DeriveHeight(cls_text) ==
    IF Contains(cls_text, H_VAR) THEN "32px (var(--ui-button-height))"
    ELSE IF HToken(cls_text) # 0 THEN TW_H_MAP[HToken(cls_text)].px
    ELSE "button-variant-default (32px expected)"

IsDigit(c) == c \in {"0", "1", "2", "3", "4", "5", "6", "7", "8", "9"}

RECURSIVE DigitRun(_, _)
\* how many digits s holds from position j on
DigitRun(s, j) ==
    IF j <= Len(s) /\ IsDigit(s[j]) THEN 1 + DigitRun(s, j + 1) ELSE 0

\* the length of the match of  w-\[[^\]]+\]|w-\d+|w-\d+\/\d+|w-\d+  at
\* position j of s, 0 for none
WidthMatchAt(s, j) ==
    IF ~ (j + 2 <= Len(s) /\ s[j] = "w" /\ s[j + 1] = "-") THEN 0
    ELSE IF s[j + 2] = "["
    THEN LET close == {k \in (j + 4)..Len(s) : s[k] = "]"}
         IN  IF close = {} \/ (j + 3 <= Len(s) /\ s[j + 3] = "]") THEN 0
             ELSE (CHOOSE k \in close : \A k2 \in close : k <= k2) - j + 1
    ELSE IF DigitRun(s, j + 2) > 0 THEN 2 + DigitRun(s, j + 2)
    ELSE 0

\* line 43: re.search, the leftmost match; <<>> for None
WidthMatch(s) ==
    LET at == {j \in 1..Len(s) : WidthMatchAt(s, j) > 0}
    IN  IF at = {} THEN <<>>
        ELSE LET j == CHOOSE j \in at : \A k \in at : j <= k
             IN  SubSeq(s, j, j + WidthMatchAt(s, j) - 1)

\* lines 62-76
DeriveWidth(cls_text, chunk_text) ==
    LET w == WidthMatch(cls_text)
    IN  IF w # <<>>
        THEN IF w = W_VAR THEN <<"32px (var(--ui-button-height))">> ELSE w
        ELSE IF Contains(chunk_text, <<"i", "c", "o", "n">>)
        THEN <<"32px (icon -> square)">>
        ELSE <<"auto / content">>

\* lines 28-84: the audit record of one match (its file and snippet are
\* left out)
AuditRecord(chunk) ==
    [className |-> ClassText(chunk),
     height |-> DeriveHeight(ClassText(chunk)),
     width |-> DeriveWidth(ClassText(chunk), ChunkText(chunk))]

(***************************************************************************)
(* Typography verification stub.                                           *)
(***************************************************************************)
EXPECTED_SIZES ==
    [token \in {"text-ui-xs", "text-ui-sm", "text-ui-md", "text-ui-lg",
                "text-ui-xl", "text-ui-2xl", "text-ui-3xl"} |->
       CASE token = "text-ui-xs" -> "12px"
         [] token = "text-ui-sm" -> "14px"
         [] token = "text-ui-md" -> "16px"
         [] token = "text-ui-lg" -> "18px"
         [] token = "text-ui-xl" -> "20px"
         [] token = "text-ui-2xl" -> "24px"
         [] token = "text-ui-3xl" -> "30px"]

TEST_CASES ==
    << [component |-> "Button (default)", selector |-> "button", expected |-> "text-ui-sm"],
       [component |-> "Badge", selector |-> ".inline-flex.items-center.rounded-full",
        expected |-> "text-ui-xs"],
       [component |-> "Input Field", selector |-> "input[type=\"text\"]",
        expected |-> "text-ui-md"],
       [component |-> "Label", selector |-> "label", expected |-> "text-ui-sm"],
       [component |-> "Dropdown Menu Item", selector |-> "[role=\"menuitem\"]",
        expected |-> "text-ui-sm"],
       [component |-> "Tab Trigger", selector |-> "[role=\"tab\"]", expected |-> "text-ui-sm"],
       [component |-> "Toast Title", selector |-> "[data-title]", expected |-> "text-ui-sm"],
       [component |-> "Dialog Title", selector |-> "h2[id*=\"dialog\"]",
        expected |-> "text-ui-lg"],
       [component |-> "Compilation Output",
        selector |-> "[data-testid=\"compilation-text\"]", expected |-> "text-ui-sm"],
       [component |-> "Serial Monitor", selector |-> "[data-testid=\"serial-output\"]",
        expected |-> "text-ui-xs"],
       [component |-> "Parser Analysis Header", selector |-> ".bg-muted .text-white",
        expected |-> "text-ui-sm"] >>

\* get_computed_style_via_js(url, selector), lines 40-47:
\* EXPECTED_SIZES.get(selector, '14px')
get_computed_style_via_js(url, selector) ==
    IF selector \in DOMAIN EXPECTED_SIZES THEN EXPECTED_SIZES[selector] ELSE "14px"

\* lines 63-72: passed
CasePassed(test) ==
    LET expected_size == EXPECTED_SIZES[test.expected]
        actual_size == expected_size
    IN  actual_size = expected_size

\* lines 63-82: the result dict of one test case
VerifyCase(test) ==
    LET expected_size == EXPECTED_SIZES[test.expected]
        actual_size == expected_size
    IN  [component |-> test.component,
         expected_token |-> test.expected,
         expected_size |-> expected_size,
         actual_size |-> actual_size,
         status |-> IF CasePassed(test) THEN "[check] PASS" ELSE "[cross] FAIL"]

(***************************************************************************)
(* The state of a run of one of the three scripts.                         *)
(***************************************************************************)
VARIABLES
    script,        \* which script runs: "auditor", "scraper" or "stub"
    pc,            \* where the script stands
    exc,           \* an exception is propagating
    exit_code,     \* -1 while running, then the process's exit status
    \* font-size auditor
    config,        \* the --config file: "ok", "missing" or "badjson"
    selectors,     \* the selector list of the file
    session,       \* the browser session: "none", "open", "closed"
    page_scale,    \* the page's --ui-font-scale, in thousandths
    gets,          \* the outcomes of the driver.get calls so far
    si,            \* index into FONT_SCALES of the outer loop
    ci,            \* index into selectors of the inner loop
    results,       \* the rows collected so far
    md,            \* the Markdown report file
    csv,           \* the CSV report file
    faults,        \* failed injections, measurements and writes so far
    scale_log,     \* history: the set_font_scale calls, in order
    measure_log,   \* history: the measure_font_size calls, in order
    \* button-size scraper
    matches,       \* the chunks the <Button ...> pattern matches in the tree
    audit,         \* the scraper's results list
    audit_saved,   \* button-size-audit.json is written
    \* typography stub
    ti,            \* index into TEST_CASES
    verdicts,      \* verify_typography's results list
    all_pass,      \* verify_typography's all_pass
    evidence       \* the evidence file and what was dumped to it

run_vars == <<script, pc, exc, exit_code>>
aud_vars == <<config, selectors, session, page_scale, gets, si, ci, results,
              md, csv, faults, scale_log, measure_log>>
scr_vars == <<matches, audit, audit_saved>>
stub_vars == <<ti, verdicts, all_pass, evidence>>
vars == <<run_vars, aud_vars, scr_vars, stub_vars>>

NoFile == [opened |-> FALSE, rows |-> 0, summary |-> "none"]

AuditorIdle ==
    /\ session = "none"
    /\ page_scale = 1000
    /\ gets = <<>>
    /\ si = 0
    /\ ci = 0
    /\ results = <<>>
    /\ md = NoFile
    /\ csv = NoFile
    /\ faults = 0
    /\ scale_log = <<>>
    /\ measure_log = <<>>

ScraperIdle == audit = <<>> /\ audit_saved = FALSE

NoEvidence == [written |-> FALSE, results |-> <<>>, all_passed |-> FALSE]

StubIdle == ti = 1 /\ verdicts = <<>> /\ all_pass = TRUE /\ evidence = NoEvidence

InitAuditor ==
    /\ script = "auditor"
    /\ pc = "load_selectors"
    /\ config \in {"ok", "missing", "badjson"}
    /\ selectors \in ConfigLists(MaxComps)
    /\ AuditorIdle
    /\ matches = <<>> /\ ScraperIdle /\ StubIdle

\* the tree holds no use of Button, or one
InitScraper ==
    /\ script = "scraper"
    /\ pc = "scan"
    /\ matches \in {<<>>} \cup {<<c>> : c \in Chunks}
    /\ ScraperIdle
    /\ config = "ok" /\ selectors = <<>> /\ AuditorIdle /\ StubIdle

InitStub ==
    /\ script = "stub"
    /\ pc = "verify"
    /\ StubIdle
    /\ config = "ok" /\ selectors = <<>> /\ AuditorIdle
    /\ matches = <<>> /\ ScraperIdle

Init ==
    /\ exc = FALSE
    /\ exit_code = -1
    /\ (InitAuditor \/ InitScraper \/ InitStub)

\* sys.exit(status)
Exit(status) == pc' = "done" /\ exit_code' = status

\* an exception leaves main()'s try block: control goes to the finally clause
Raise == pc' = "finally" /\ exc' = TRUE

\* lines 144-146
load_selectors ==
    /\ script = "auditor" /\ pc = "load_selectors"
    /\ IF config = "ok"
       THEN pc' = "init_driver" /\ UNCHANGED exit_code
       ELSE Exit(1)
    /\ UNCHANGED <<scr_vars, stub_vars, script, exc, aud_vars>>

\* lines 148-149: webdriver.Chrome(...) starts the session, then
\* set_page_load_timeout(30) talks to it; either may raise inside
\* init_driver's try, whose handler prints and exits.
init_driver ==
    /\ script = "auditor" /\ pc = "init_driver"
    /\ \E chrome \in {"ok", "raise"}, set_timeout \in {"ok", "raise"} :
          IF chrome = "raise"
          THEN Exit(1) /\ UNCHANGED session
          ELSE IF set_timeout = "raise"
          THEN Exit(1) /\ session' = "open"
          ELSE pc' = "get" /\ session' = "open" /\ UNCHANGED exit_code
    /\ UNCHANGED <<scr_vars, stub_vars, script, exc, config, selectors, page_scale, gets, si, ci,
                   results, md, csv, faults, scale_log, measure_log>>

\* lines 153-154: driver.get(args.url)
LoadPage ==
    /\ script = "auditor" /\ pc = "get"
    /\ \E outcome \in {"ok", "raise"} :
          /\ gets' = Append(gets, outcome)
          /\ pc' = IF outcome = "ok" THEN "wait_body" ELSE "retry"
    /\ UNCHANGED <<scr_vars, stub_vars, script, exc, exit_code, config, selectors, session,
                   page_scale, si, ci, results, md, csv, faults, scale_log,
                   measure_log>>

\* lines 155-159: the handler's second driver.get(args.url)
RetryLoad ==
    /\ script = "auditor" /\ pc = "retry"
    /\ \E outcome \in {"ok", "raise"} :
          /\ gets' = Append(gets, outcome)
          /\ pc' = AfterRetry(outcome)
          /\ exc' = (AfterRetry(outcome) = "finally")
    /\ UNCHANGED <<scr_vars, stub_vars, script, exit_code, config, selectors, session, page_scale,
                   si, ci, results, md, csv, faults, scale_log, measure_log>>

\* lines 162-168: wait for <body>, then results = []
WaitBody ==
    /\ script = "auditor" /\ pc = "wait_body"
    /\ \E outcome \in {"ok", "timeout"} :
          IF outcome = "ok"
          THEN pc' = "scales" /\ si' = 1 /\ UNCHANGED exc
          ELSE Raise /\ UNCHANGED si
    /\ UNCHANGED <<scr_vars, stub_vars, script, exit_code, config, selectors, session, page_scale,
                   gets, ci, results, md, csv, faults, scale_log, measure_log>>

\* lines 170-173: the head of the outer loop
NextScale ==
    /\ script = "auditor" /\ pc = "scales"
    /\ si <= Len(FONT_SCALES)
    /\ \E injected \in BOOLEAN :
          /\ injected \/ faults < MaxFaults
          /\ faults' = IF injected THEN faults ELSE faults + 1
          /\ page_scale' = set_font_scale(injected, Preset(si).scale, page_scale)
          /\ scale_log' = Append(scale_log, [si |-> si, scale |-> Preset(si).scale,
                                            injected |-> injected])
    /\ ci' = 1
    /\ pc' = "components"
    /\ UNCHANGED <<scr_vars, stub_vars, script, exc, exit_code, config, selectors, session, gets,
                   si, results, md, csv, measure_log>>

\* lines 175-214: one pass of the inner loop.  A browser fault is drawn only
\* for an element the page has: without one the wait runs out whatever else
\* the browser would do.
MeasureComponent ==
    /\ script = "auditor" /\ pc = "components"
    /\ ci <= Len(selectors)
    /\ LET comp == selectors[ci]
       IN  IF ~ ({"name", "selector"} \subseteq DOMAIN comp)
           THEN \* KeyError at line 176 or 177
                /\ Raise
                /\ UNCHANGED <<ci, results, faults, measure_log>>
           ELSE \E env \in MeasureEnvs :
                LET m == measure_font_size(env, comp.selector, page_scale)
                IN  /\ \/ env = EnvOk
                       \/ faults < MaxFaults /\ PageElement(comp.selector).base # 0
                    /\ faults' = IF env = EnvOk THEN faults ELSE faults + 1
                    /\ measure_log' = Append(measure_log,
                          [si |-> si, ci |-> ci, env |-> env, mpx |-> m.size.mpx,
                           scale |-> IF scale_log = <<>> THEN 0
                                     ELSE scale_log[Len(scale_log)].scale])
                    /\ IF m.raised
                       THEN Raise /\ UNCHANGED <<ci, results>>
                       ELSE /\ results' = Collect(results, comp, Preset(si), m)
                            /\ ci' = Advance(ci, m)
                            /\ UNCHANGED <<pc, exc>>
    /\ UNCHANGED <<scr_vars, stub_vars, script, exit_code, config, selectors, session, page_scale,
                   gets, si, md, csv, scale_log>>

\* line 216: the inner loop is exhausted
EndComponents ==
    /\ script = "auditor" /\ pc = "components"
    /\ ci > Len(selectors)
    /\ si' = si + 1
    /\ pc' = "scales"
    /\ UNCHANGED <<scr_vars, stub_vars, script, exc, exit_code, config, selectors, session,
                   page_scale, gets, ci, results, md, csv, faults, scale_log,
                   measure_log>>

\* the outer loop is exhausted
EndScales ==
    /\ script = "auditor" /\ pc = "scales"
    /\ si > Len(FONT_SCALES)
    /\ pc' = "write_md"
    /\ UNCHANGED <<scr_vars, stub_vars, script, exc, exit_code, aud_vars>>

\* The numbers of rows a file holds when a write to it raised: none, or all
\* but the last.
PartialWrites(n) == IF n = 0 THEN {} ELSE {0, n - 1}

\* lines 219-246: the Markdown report.  open() may raise; a write may raise
\* after k rows; line 245 divides by total.
WriteMarkdown ==
    /\ script = "auditor" /\ pc = "write_md"
    /\ \/ /\ faults < MaxFaults
          /\ faults' = faults + 1
          /\ Raise
          /\ UNCHANGED md
       \/ \E k \in PartialWrites(Total(results)) :
             /\ faults < MaxFaults
             /\ faults' = faults + 1
             /\ Raise
             /\ md' = [opened |-> TRUE, rows |-> k, summary |-> "none"]
       \/ /\ Total(results) = 0
          /\ Raise
          /\ md' = [opened |-> TRUE, rows |-> Len(results), summary |-> "total"]
          /\ UNCHANGED faults
       \/ /\ Total(results) # 0
          /\ pc' = "write_csv"
          /\ md' = [opened |-> TRUE, rows |-> Len(results), summary |-> "full"]
          /\ UNCHANGED <<exc, faults>>
    /\ UNCHANGED <<scr_vars, stub_vars, script, exit_code, config, selectors, session, page_scale,
                   gets, si, ci, results, csv, scale_log, measure_log>>

\* lines 249-270: the CSV report (summary "full": the file is complete)
WriteCsv ==
    /\ script = "auditor" /\ pc = "write_csv"
    /\ \/ /\ faults < MaxFaults
          /\ faults' = faults + 1
          /\ Raise
          /\ UNCHANGED csv
       \/ \E k \in PartialWrites(Total(results)) :
             /\ faults < MaxFaults
             /\ faults' = faults + 1
             /\ Raise
             /\ csv' = [opened |-> TRUE, rows |-> k, summary |-> "none"]
       \/ /\ pc' = "finally"
          /\ csv' = [opened |-> TRUE, rows |-> Len(results), summary |-> "full"]
          /\ UNCHANGED <<exc, faults>>
    /\ UNCHANGED <<scr_vars, stub_vars, script, exit_code, config, selectors, session, page_scale,
                   gets, si, ci, results, md, scale_log, measure_log>>

\* lines 272-274: driver.quit(); an exception that reached here then ends
\* the process with a traceback and status 1
Finally ==
    /\ script = "auditor" /\ pc = "finally"
    /\ session' = "closed"
    /\ Exit(IF exc THEN 1 ELSE 0)
    /\ UNCHANGED <<scr_vars, stub_vars, script, exc, config, selectors, page_scale, gets, si, ci,
                   results, md, csv, faults, scale_log, measure_log>>

\* collect-button-sizes.py lines 27-84: the next match
ScanButton ==
    /\ script = "scraper" /\ pc = "scan"
    /\ Len(audit) < Len(matches)
    /\ audit' = Append(audit, AuditRecord(matches[Len(audit) + 1]))
    /\ UNCHANGED <<run_vars, aud_vars, stub_vars, matches, audit_saved>>

\* collect-button-sizes.py lines 86-100: print, then dump the results
SaveAudit ==
    /\ script = "scraper" /\ pc = "scan"
    /\ Len(audit) = Len(matches)
    /\ \E outcome \in {"ok", "raise"} :
          /\ audit_saved' = (outcome = "ok")
          /\ Exit(IF outcome = "ok" THEN 0 ELSE 1)
          /\ exc' = (outcome = "raise")
    /\ UNCHANGED <<script, aud_vars, stub_vars, matches, audit>>

\* verify-typography.py lines 62-85: the next test case
VerifyNext ==
    /\ script = "stub" /\ pc = "verify"
    /\ ti <= Len(TEST_CASES)
    /\ verdicts' = Append(verdicts, VerifyCase(TEST_CASES[ti]))
    /\ all_pass' = (all_pass /\ CasePassed(TEST_CASES[ti]))
    /\ ti' = ti + 1
    /\ UNCHANGED <<run_vars, aud_vars, scr_vars, evidence>>

\* verify-typography.py lines 87-104: the summary, the evidence file at a
\* fixed absolute path, return all_pass
SaveEvidence ==
    /\ script = "stub" /\ pc = "verify"
    /\ ti > Len(TEST_CASES)
    /\ \E outcome \in {"ok", "raise"} :
          /\ evidence' = IF outcome = "ok"
                         THEN [written |-> TRUE, results |-> verdicts, all_passed |-> all_pass]
                         ELSE evidence
          /\ Exit(IF outcome = "ok" THEN 0 ELSE 1)
          /\ exc' = (outcome = "raise")
    /\ UNCHANGED <<script, aud_vars, scr_vars, ti, verdicts, all_pass>>

Next ==
    \/ load_selectors
    \/ init_driver
    \/ LoadPage
    \/ RetryLoad
    \/ WaitBody
    \/ NextScale
    \/ MeasureComponent
    \/ EndComponents
    \/ EndScales
    \/ WriteMarkdown
    \/ WriteCsv
    \/ Finally
    \/ ScanButton
    \/ SaveAudit
    \/ VerifyNext
    \/ SaveEvidence

Spec == Init /\ [][Next]_vars

(***************************************************************************)
(* Properties of the font-size auditor.                                    *)
(***************************************************************************)
\* the i-th measure_font_size call returned a size / returned None
Measured(i) == measure_log[i].mpx >= 0
\* measured size minus the row's expected size, in mpx
Dev(i) == measure_log[i].mpx - 1000 * results[i].Erwartet
\* the texts that print a signed deviation of D mpx to one decimal
DevTexts(D) ==
    { <<(IF D < 0 THEN "-" ELSE "+") \o Tenths(t)>> :
        t \in {u \in ((Abs(D) \div 100) - 1)..((Abs(D) \div 100) + 1) :
                 u >= 0 /\ Abs(100 * u - Abs(D)) <= 55} }
\* the texts that print a size of m mpx to one decimal
SizeTexts(m) ==
    { <<Tenths(t)>> : t \in {u \in ((m \div 100) - 1)..((m \div 100) + 1) :
                               u >= 0 /\ Abs(100 * u - m) <= 50} }
\* the rows that belong to a call of the log
Rows == 1..(IF Len(results) < Len(measure_log) THEN Len(results) ELSE Len(measure_log))

\* C1 as stated: every measured row records measured - expected as its
\* deviation (to the decimal it prints) and has status pass exactly when
\* |measured - expected| <= 1.0.
C1_Original ==
    script = "auditor" =>
      \A i \in Rows : Measured(i) =>
         /\ results[i].Abweichung \in DevTexts(Dev(i))
         /\ (results[i].Status = CHECK <=> Abs(Dev(i)) <= 1000)
         /\ results[i].Status \in {CHECK, CROSS}

\* C1 amended: the deviation is rounded to two decimals before it is
\* compared and printed: every measured row has status pass exactly when
\* |round(measured - expected, 2)| <= 1.0, so it passes whenever
\* |measured - expected| < 1.005 and fails whenever it is > 1.005 (at 1.005
\* itself the binary rounding decides); the row prints measured size and
\* deviation to one decimal.
C1_Amended ==
    script = "auditor" =>
      \A i \in Rows : Measured(i) =>
         /\ results[i].Gemessen \in SizeTexts(measure_log[i].mpx)
         /\ results[i].Abweichung \in DevTexts(Dev(i))
         /\ results[i].Status \in {CHECK, CROSS}
         /\ (Abs(Dev(i)) % 10 # 5) =>
               (results[i].Status = CHECK <=> (Abs(Dev(i)) + 5) \div 10 <= 100)

\* a finished run holds a row that passes although its size is more than
\* 1.0 px off, one that passes exactly 1.0 px off and one that fails
C1_Witness ==
    /\ script = "auditor" /\ pc = "done" /\ exit_code = 0
    /\ \E i \in Rows : Measured(i) /\ Abs(Dev(i)) > 1000 /\ results[i].Status = CHECK
    /\ \E i \in Rows : Measured(i) /\ Abs(Dev(i)) = 1000 /\ results[i].Status = CHECK
    /\ \E i \in Rows : Measured(i) /\ results[i].Status = CROSS

\* C2: a run of the auditor that has ended has no browser session that was
\* started and not quit.
C2_SessionReleased ==
    (script = "auditor" /\ pc = "done") => session # "open"

\* C3: when the loops are done the list holds 5 x (number of components)
\* rows, and a report whose rows were all written holds that many.
C3_RowCount ==
    script = "auditor" =>
      /\ (pc \in {"write_md", "write_csv"} \/ md.opened \/ csv.opened)
            => Len(results) = Len(FONT_SCALES) * Len(selectors)
      /\ md.summary \in {"total", "full"}
            => md.rows = Len(FONT_SCALES) * Len(selectors)
      /\ csv.summary = "full" => csv.rows = Len(FONT_SCALES) * Len(selectors)

\* both reports are complete for two components, with measured and
\* unmeasured rows among them
C3_Witness ==
    /\ script = "auditor" /\ pc = "done"
    /\ md.summary = "full" /\ csv.summary = "full"
    /\ Len(selectors) = 2 /\ csv.rows = 10
    /\ \E i \in Rows : Measured(i)
    /\ \E i \in Rows : ~ Measured(i) /\ measure_log[i].env.find = "nosuch"
    /\ \E i \in Rows : ~ Measured(i) /\ measure_log[i].env.wait = "ok"
                        /\ measure_log[i].env.find = "ok"
                        /\ measure_log[i].env.script = "ok"

\* the selector of the i-th call matched no element within the wait
NoMatch(i) ==
    \/ measure_log[i].env.wait = "timeout"
    \/ PageElement(results[i].Selektor).base = 0
    \/ measure_log[i].env.find = "nosuch"

\* ... because the wait ran out
WaitRanOut(i) ==
    \/ measure_log[i].env.wait = "timeout"
    \/ PageElement(results[i].Selektor).base = 0

\* the labels and messages the auditor has for an element that is not found
NotFoundLabels ==
    {"Timeout", "Nicht gefunden", "Element nicht innerhalb von 3s gefunden",
     "Selektor matched kein Element"}

\* C4 as stated: the row of a selector that matched nothing has a
\* not-found status, and counts as failed, never as passed.
C4_Original ==
    script = "auditor" =>
      \A i \in Rows : NoMatch(i) =>
         /\ results[i].Status \in NotFoundLabels
         /\ results[i].Status # CHECK

\* C4 amended: the row of a selector that matched nothing has the fail
\* status; when the wait ran out it carries the label "Timeout" in place of
\* the measured size and the not-found message in place of the deviation,
\* and when the lookup after the wait failed the label "Nicht gefunden" and
\* the no-match message; the row is counted in the summary's failed count,
\* never in its passed count.
C4_Amended ==
    script = "auditor" =>
      /\ \A i \in Rows : NoMatch(i) =>
            /\ results[i].Status = CROSS
            /\ IF WaitRanOut(i)
               THEN /\ results[i].Gemessen = <<"Timeout">>
                    /\ results[i].Abweichung =
                          <<"Element nicht innerhalb von 3s gefunden">>
               ELSE /\ results[i].Gemessen = <<"Nicht gefunden">>
                    /\ results[i].Abweichung = <<"Selektor matched kein Element">>
      /\ md.summary = "full" =>
            /\ Passed(results) + Failed(results) = Len(results)
            /\ Passed(results) <= Cardinality({i \in Rows : ~ NoMatch(i)})
            /\ Failed(results) >= Cardinality({i \in Rows : NoMatch(i)})

\* the summary is written for a run with a timed-out row, a row of an
\* element the page lacks, and a passed row
C4_Witness ==
    /\ script = "auditor" /\ md.summary = "full"
    /\ \E i \in Rows : measure_log[i].env.wait = "timeout"
    /\ \E i \in Rows : PageElement(results[i].Selektor).base = 0
    /\ Passed(results) > 0

\* C5: a measure_font_size call that yields no size is not fatal: the run
\* stays in the inner loop and moves to the next component, and a row for
\* the pair is appended with the failure's label in place of the size.
C5_NonFatal ==
    [][ ( /\ script = "auditor"
          /\ Len(measure_log') = Len(measure_log) + 1
          /\ measure_log'[Len(measure_log')].mpx < 0 )
        => /\ pc' = "components" /\ exc' = FALSE /\ exit_code' = -1
           /\ si' = si /\ ci' = ci + 1
           /\ Len(results') = Len(results) + 1
           /\ SubSeq(results', 1, Len(results)) = results
           /\ results'[Len(results')].Komponente = selectors[ci].name
           /\ results'[Len(results')].Skalierung = FONT_SCALES[si].label
           /\ results'[Len(results')].Gemessen \in
                 {<<"Timeout">>, <<"Nicht gefunden">>, <<"Fehler">>} ]_vars

\* a run ended normally in which a failed measurement of each kind was
\* followed by further measurements
C5_Witness ==
    /\ script = "auditor" /\ pc = "done" /\ exit_code = 0
    /\ \E i \in Rows : i < Len(measure_log) /\ results[i].Gemessen = <<"Fehler">>
                        /\ results[i].Abweichung = <<"N/A">>
    /\ \E i \in Rows : i < Len(measure_log) /\ results[i].Gemessen = <<"Timeout">>

\* the data rows the two files hold
MdRows == [i \in 1..md.rows |-> MdRow(results[i])]
CsvRows == [i \in 1..csv.rows |-> CsvRow(results[i])]

RECURSIVE SplitOn(_, _)
\* the pieces of text between the separators
SplitOn(text, sep) ==
    IF \A j \in 1..Len(text) : text[j] # sep THEN <<text>>
    ELSE LET j == CHOOSE j \in 1..Len(text) :
                     text[j] = sep /\ \A k \in 1..(j - 1) : text[k] # sep
         IN  <<SubSeq(text, 1, j - 1)>> \o SplitOn(SubSeq(text, j + 1, Len(text)), sep)

RECURSIVE TrimBlanks(_)
TrimBlanks(text) ==
    IF text = <<>> THEN text
    ELSE IF Head(text) \in {" ", "\n"} THEN TrimBlanks(Tail(text))
    ELSE IF text[Len(text)] \in {" ", "\n"} THEN TrimBlanks(SubSeq(text, 1, Len(text) - 1))
    ELSE text

CodeSpan(text) ==
    IF Len(text) >= 2 /\ Head(text) = BACKTICK /\ text[Len(text)] = BACKTICK
    THEN SubSeq(text, 2, Len(text) - 1)
    ELSE text

\* the cells a reader of the Markdown table finds in a line
ReadMdRow(line) ==
    LET cells == SplitOn(TrimBlanks(line), "|")
    IN  [j \in 1..(Len(cells) - 2) |-> CodeSpan(TrimBlanks(cells[j + 1]))]

RECURSIVE ReadCsv(_, _, _, _)
\* the fields a CSV reader finds in a record: rest is what is unread, field
\* what is read of the current field, quoted whether a quote is open
ReadCsv(rest, field, quoted, fields) ==
    IF rest = <<>> THEN Append(fields, field)
    ELSE IF quoted
    THEN IF Head(rest) = "\""
         THEN IF Len(rest) > 1 /\ rest[2] = "\""
              THEN ReadCsv(Tail(Tail(rest)), Append(field, "\""), TRUE, fields)
              ELSE ReadCsv(Tail(rest), field, FALSE, fields)
         ELSE ReadCsv(Tail(rest), Append(field, Head(rest)), TRUE, fields)
    ELSE IF Head(rest) = "\"" /\ field = <<>> THEN ReadCsv(Tail(rest), field, TRUE, fields)
    ELSE IF Head(rest) = "," THEN ReadCsv(Tail(rest), <<>>, FALSE, Append(fields, field))
    ELSE IF Head(rest) \in {"\r", "\n"} THEN Append(fields, field)
    ELSE ReadCsv(Tail(rest), Append(field, Head(rest)), FALSE, fields)

ReadCsvRow(line) == ReadCsv(line, <<>>, FALSE, <<>>)

\* a report holds all the rows of the run
Written(file) == file.opened /\ file.rows = Len(results)

\* C6: after a run the two reports hold the same number of data rows, one
\* is written with its rows only if the other is, and the i-th rows read
\* back to the same eight values.
C6_ReportsAgree ==
    (script = "auditor" /\ pc = "done") =>
      /\ md.rows = csv.rows
      /\ (Written(md) <=> Written(csv))
      /\ \A i \in 1..md.rows :
            /\ Len(ReadMdRow(MdRows[i])) = 8
            /\ ReadMdRow(MdRows[i]) = ReadCsvRow(CsvRows[i])

\* the runs in which the reports do agree: both complete, no "|" in a value
C6_AgreeWhenBothWritten ==
    (script = "auditor" /\ csv.summary = "full") =>
      /\ md.summary = "full" /\ md.rows = csv.rows
      /\ \A i \in 1..md.rows :
            (\A j \in 1..Len(results[i].Selektor) : results[i].Selektor[j] # "|")
               => /\ Len(ReadMdRow(MdRows[i])) = 8
                  /\ ReadMdRow(MdRows[i]) = ReadCsvRow(CsvRows[i])

\* how often a pair was measured, a preset was injected
TimesMeasured(s, c) ==
    Cardinality({i \in 1..Len(measure_log) : measure_log[i].si = s /\ measure_log[i].ci = c})
TimesInjected(s) ==
    Cardinality({k \in 1..Len(scale_log) : scale_log[k].si = s})

\* C7: the page load is attempted at most twice, the second time only after
\* the first failed and then always; no pair is measured twice and no
\* preset injected twice, and once the loops are done each was attempted
\* exactly once, whatever the outcomes.
C7_NoRetries ==
    script = "auditor" =>
      /\ Len(gets) <= 2
      /\ Len(gets) = 2 => gets[1] = "raise"
      /\ (Len(gets) = 1 /\ gets[1] = "raise") => pc = "retry"
      /\ \A s \in 1..Len(FONT_SCALES) :
            /\ TimesInjected(s) <= 1
            /\ \A c \in 1..Len(selectors) : TimesMeasured(s, c) <= 1
      /\ (pc \in {"write_md", "write_csv"} \/ md.opened) =>
            \A s \in 1..Len(FONT_SCALES) :
               /\ TimesInjected(s) = 1
               /\ \A c \in 1..Len(selectors) : TimesMeasured(s, c) = 1
      /\ Len(scale_log) <= Len(FONT_SCALES)
      /\ Len(measure_log) <= Len(FONT_SCALES) * Len(selectors)

\* a run ended normally after a retried page load and a failed measurement
C7_Witness ==
    /\ script = "auditor" /\ pc = "done" /\ exit_code = 0
    /\ gets = <<"raise", "ok">>
    /\ Len(selectors) = 2
    /\ \E i \in Rows : ~ Measured(i) /\ measure_log[i].env # EnvOk

\* C10: every measurement of a preset comes after the attempt to inject that
\* preset's factor, which is the latest attempt at that time; a call whose
\* wait timed out or whose element was not found reads no size; and the row
\* carries that preset's label and expected size and is classified against
\* it.
C10_Order ==
    script = "auditor" =>
      \A i \in 1..Len(measure_log) :
         LET e == measure_log[i]
         IN  /\ TimesInjected(e.si) = 1
             /\ e.scale = FONT_SCALES[e.si].scale
             /\ (e.env.wait = "timeout" \/ e.env.find = "nosuch") => e.mpx < 0
             /\ i \in Rows =>
                  /\ results[i].Skalierung = FONT_SCALES[e.si].label
                  /\ results[i].Erwartet = FONT_SCALES[e.si].expected_px
                  /\ (Measured(i) /\ Abs(e.mpx - 1000 * FONT_SCALES[e.si].expected_px) <= 1004)
                        => results[i].Status = CHECK
                  /\ (Measured(i) /\ Abs(e.mpx - 1000 * FONT_SCALES[e.si].expected_px) >= 1006)
                        => results[i].Status = CROSS

\* a run ended normally in which an injection failed, so that a component
\* was measured at the previous preset's size and judged by the new one's
C10_Witness ==
    /\ script = "auditor" /\ pc = "done" /\ exit_code = 0
    /\ Len(results) = 10
    /\ \E k \in 2..Len(scale_log) : ~ scale_log[k].injected
    /\ \E i \in Rows : Measured(i) /\ results[i].Skalierung = "XXL"
                        /\ measure_log[i].mpx = 17500 /\ results[i].Status = CROSS

(***************************************************************************)
(* Properties of the button-size scraper.                                  *)
(***************************************************************************)
DEFAULT_HEIGHT == "button-variant-default (32px expected)"

\* a character that separates the classes of a class text
Separator(c) == c \in {" ", "\n", "'", "\"", ","}

\* the class text holds the class: an occurrence that is not part of a
\* longer class
HasClass(cls_text, class) ==
    \E at \in 1..(Len(cls_text) - Len(class) + 1) :
       /\ SubSeq(cls_text, at, at + Len(class) - 1) = class
       /\ at = 1 \/ Separator(cls_text[at - 1])
       /\ at + Len(class) > Len(cls_text) \/ Separator(cls_text[at + Len(class)])

\* C8: a class text that holds a height token of the table gets that
\* token's pixel value as height; one that holds neither a height token
\* of the table nor the size variable gets the default placeholder.
C8_TokenHeight ==
    script = "scraper" =>
      \A i \in 1..Len(audit) :
         LET cls_text == audit[i].className
         IN  /\ \A j \in 1..Len(TW_H_MAP) :
                   HasClass(cls_text, TW_H_MAP[j].token)
                      => audit[i].height = TW_H_MAP[j].px
             /\ ((\A j \in 1..Len(TW_H_MAP) : ~ HasClass(cls_text, TW_H_MAP[j].token))
                   /\ ~ HasClass(cls_text, H_VAR))
                  => audit[i].height = DEFAULT_HEIGHT

\* what does hold: without the size variable the height is that of the
\* first token, in the table's order, that occurs anywhere in the text
C8_FirstSubstring ==
    script = "scraper" =>
      \A i \in 1..Len(audit) :
         LET cls_text == audit[i].className
         IN  /\ \A j \in 1..Len(TW_H_MAP) :
                   ( /\ Contains(cls_text, TW_H_MAP[j].token)
                     /\ \A k \in 1..(j - 1) : ~ Contains(cls_text, TW_H_MAP[k].token)
                     /\ ~ Contains(cls_text, H_VAR) )
                   => audit[i].height = TW_H_MAP[j].px
             /\ ((\A j \in 1..Len(TW_H_MAP) : ~ Contains(cls_text, TW_H_MAP[j].token))
                   /\ ~ Contains(cls_text, H_VAR))
                  => audit[i].height = DEFAULT_HEIGHT

(***************************************************************************)
(* Properties of the typography stub.                                      *)
(***************************************************************************)
URL == "http://localhost:3001"

\* C9: every test case is reported PASS and all_pass stays true, and the
\* size reported as actual is what get_computed_style_via_js, the stand-in
\* for the DOM inspection, returns for the case: its expected size.
C9_StubPasses ==
    script = "stub" =>
      /\ all_pass
      /\ \A i \in 1..Len(verdicts) :
            /\ verdicts[i].status = "[check] PASS"
            /\ get_computed_style_via_js(URL, TEST_CASES[i].selector)
                  = verdicts[i].expected_size
            /\ get_computed_style_via_js(URL, TEST_CASES[i].selector)
                  = verdicts[i].actual_size

\* what does hold: every case is reported PASS with actual = expected, and
\* the evidence, when written, says all_passed
C9_AlwaysPass ==
    script = "stub" =>
      /\ all_pass
      /\ \A i \in 1..Len(verdicts) :
            /\ verdicts[i].status = "[check] PASS"
            /\ verdicts[i].actual_size = EXPECTED_SIZES[TEST_CASES[i].expected]
      /\ evidence.written => (evidence.all_passed /\ Len(evidence.results) = Len(TEST_CASES))
=============================================================================
